---- MODULE Spec2Model ----
(***************************************************************************)
(* Backup scheduling and retention engine of automated-mongo-backup        *)
(* (src/backup.js): the run-lock, the cron triggers, the startup check for *)
(* missing weekly/monthly/yearly backups, the attempt itself and the       *)
(* retention callbacks, as one state machine over the Node.js event loop.  *)
(* One action is one event-loop turn: a callback together with the         *)
(* micro-tasks (resolved awaits) it runs before the loop takes the next    *)
(* callback.                                                               *)
(***************************************************************************)
EXTENDS Integers, Sequences, FiniteSets, TLC

VARIABLES
  \* process.env as the process was started with it
  processEnv,
  \* configuration, src/backup.js:28-38 (fixed for the life of the process)
  DAILY_BACKUP_INTERVAL_MINUTES, MAX_DAILY_BACKUPS,
  NUMBER_OF_WEEKLY_BACKUPS, MAX_AGE_OF_WEEKLY_BACKUPS,
  NUMBER_OF_MONTHLY_BACKUPS, MAX_AGE_OF_MONTHLY_BACKUPS,
  NUMBER_OF_YEARLY_BACKUPS, MAX_AGE_OF_YEARLY_BACKUPS,
  TIMEZONE,
  \* the wall clock, in seconds since 2025-01-01T00:00:00Z
  now,
  \* "running" | "exited"
  proc,
  \* global backup state, src/backup.js:41-42
  isBackupRunning, currentBackupInfo,
  \* the rows of table backups, in insertion order
  backups,
  \* the artifact directories on disk: [type, name]
  dirs,
  \* the performBackup calls in flight: past the guard and not yet through
  \* finally; and the number of calls that passed the guard so far
  attempts, started,
  \* the db.all queries of cleanupOldBackups whose callback has not run yet
  cleanups,
  \* position of startBackupScheduler: "probe" | "initial" | "started"
  schedPc,
  \* the cron jobs scheduled, and those whose callback ran at this instant
  cronJobs, fired,
  \* position of checkAndCreateMissingBackups
  missingCheck,
  \* the last label determineBackupType returned ("none" before any call)
  lastType

config ==
  <<processEnv, DAILY_BACKUP_INTERVAL_MINUTES, MAX_DAILY_BACKUPS, NUMBER_OF_WEEKLY_BACKUPS,
    MAX_AGE_OF_WEEKLY_BACKUPS, NUMBER_OF_MONTHLY_BACKUPS, MAX_AGE_OF_MONTHLY_BACKUPS,
    NUMBER_OF_YEARLY_BACKUPS, MAX_AGE_OF_YEARLY_BACKUPS, TIMEZONE>>

vars ==
  <<config, now, proc, isBackupRunning, currentBackupInfo, backups, dirs, attempts,
    started, cleanups, schedPc, cronJobs, fired, missingCheck, lastType>>

\* ------------------------------------------------------------------ bounds

\* performBackup calls that pass the guard in one run of the process
MaxAttempts == 2

\* minutes over which the cron jobs are followed on their own
CronMinutes == 180

\* ---------------------------------------------------------------- calendar
\* Instants are seconds since 2025-01-01T00:00:00Z (a Wednesday). The years
\* modelled (2025..2027) have 365 days each.

\* first day of each month, as a 0-based day of the year
MonthStarts == <<0, 31, 59, 90, 120, 151, 181, 212, 243, 273, 304, 334>>

DayNumber(l) == l \div 86400
Second(l) == l % 60
Minute(l) == (l \div 60) % 60
Hour(l) == (l \div 3600) % 24
DayOfYear(l) == (DayNumber(l) % 365) + 1
YearIndex(l) == DayNumber(l) \div 365
MonthOfYear(l) ==
  CHOOSE m \in 1..12 :
    /\ MonthStarts[m] < DayOfYear(l)
    /\ (m = 12 \/ DayOfYear(l) <= MonthStarts[m + 1])
DayOfMonth(l) == DayOfYear(l) - MonthStarts[MonthOfYear(l)]
\* 0 = Sunday
DayOfWeek(l) == (DayNumber(l) + 3) % 7

\* moment().tz(TIMEZONE): the local reading of instant t. A zone is modelled by
\* its UTC offset in seconds (fixed-offset zones).
TzLocal(t) == t + TIMEZONE
\* the instant of a local reading
TzInstant(l) == l - TIMEZONE

\* moment#startOf('week' | 'month' | 'year') on a local reading (locale en: the
\* week starts on Sunday)
StartOf(l, unit) ==
  CASE unit = "week" -> (DayNumber(l) - DayOfWeek(l)) * 86400
    [] unit = "month" -> (DayNumber(l) - (DayOfMonth(l) - 1)) * 86400
    [] unit = "year" -> (DayNumber(l) - (DayOfYear(l) - 1)) * 86400

\* days in month m (1..12) of a 365-day year
DaysInMonth(m) == IF m = 12 THEN 365 - MonthStarts[12] ELSE MonthStarts[m + 1] - MonthStarts[m]

Min(a, b) == IF a <= b THEN a ELSE b

\* moment#subtract(n, unit) followed by format('YYYY-MM-DD'): the day number of
\* the local date n units before l (months and years keep the day of the
\* month, clamped to the length of the target month)
SubtractDate(l, n, unit) ==
  CASE unit = "weeks" -> DayNumber(l) - 7 * n
    [] unit = "months" ->
         LET months == YearIndex(l) * 12 + (MonthOfYear(l) - 1) - n
             y == months \div 12
             m == (months % 12) + 1
         IN y * 365 + MonthStarts[m] + Min(DayOfMonth(l), DaysInMonth(m)) - 1
    [] unit = "years" -> DayNumber(l) - 365 * n

\* moment().tz(TIMEZONE).format(): ISO-8601 local reading plus offset, to the
\* second. The text is represented by the two things it spells.
FormatTimestamp(t) == [local |-> TzLocal(t), off |-> TIMEZONE]

\* SQLite date(timestamp) and datetime(timestamp): a time value with an offset
\* is converted to UTC
SqlInstant(ts) == ts.local - ts.off
SqlDate(ts) == DayNumber(SqlInstant(ts))

\* The process clock zone (new Date(), node-cron): the image sets no TZ
SystemUtcOffset == 0

\* generateBackupFolderName: YYYYMMDD_HHMMSS_<db> of the process-local time;
\* represented by the local second it spells (the database name is constant)
generateBackupFolderName(t) == t + SystemUtcOffset

\* A variable of the environment is the set of the integer it spells: empty
\* when the variable is unset or spells no number
undefined == {}

\* parseInt(process.env.X) || fallback: NaN (an unset or non-numeric variable)
\* and 0 are both falsy
ParseIntOr(v, fallback) ==
  IF v = undefined \/ v = {0} THEN fallback ELSE CHOOSE n \in v : TRUE

\* Math.round(24 / (n / 7)) = floor(168/n + 1/2), for n > 0
HoursPerBackup(n) == (336 + n) \div (2 * n)

NULL == "NULL"
null == {}

Types == {"daily", "weekly", "monthly", "yearly"}

\* ------------------------------------------------------------ configuration

\* src/backup.js:28-38. tz is the offset of the zone named by TIMEZONE.
LoadConfig(env) ==
  /\ processEnv = env
  /\ DAILY_BACKUP_INTERVAL_MINUTES = ParseIntOr(env.DAILY_BACKUP_INTERVAL_MINUTES, 60)
  /\ MAX_DAILY_BACKUPS = ParseIntOr(env.MAX_DAILY_BACKUPS, -1)
  /\ NUMBER_OF_WEEKLY_BACKUPS = ParseIntOr(env.NUMBER_OF_WEEKLY_BACKUPS, 7)
  /\ MAX_AGE_OF_WEEKLY_BACKUPS = ParseIntOr(env.MAX_AGE_OF_WEEKLY_BACKUPS, 4)
  /\ NUMBER_OF_MONTHLY_BACKUPS = ParseIntOr(env.NUMBER_OF_MONTHLY_BACKUPS, 12)
  /\ MAX_AGE_OF_MONTHLY_BACKUPS = ParseIntOr(env.MAX_AGE_OF_MONTHLY_BACKUPS, 12)
  /\ NUMBER_OF_YEARLY_BACKUPS = ParseIntOr(env.NUMBER_OF_YEARLY_BACKUPS, 5)
  /\ MAX_AGE_OF_YEARLY_BACKUPS = ParseIntOr(env.MAX_AGE_OF_YEARLY_BACKUPS, 5)
  /\ TIMEZONE = env.tz

NumberOfBackups(type) ==
  CASE type = "weekly" -> NUMBER_OF_WEEKLY_BACKUPS
    [] type = "monthly" -> NUMBER_OF_MONTHLY_BACKUPS
    [] type = "yearly" -> NUMBER_OF_YEARLY_BACKUPS

\* ageConfigs, src/backup.js:291-295
MaxAge(type) ==
  CASE type = "weekly" -> MAX_AGE_OF_WEEKLY_BACKUPS
    [] type = "monthly" -> MAX_AGE_OF_MONTHLY_BACKUPS
    [] type = "yearly" -> MAX_AGE_OF_YEARLY_BACKUPS

AgeUnit(type) ==
  CASE type = "weekly" -> "weeks"
    [] type = "monthly" -> "months"
    [] type = "yearly" -> "years"

\* ------------------------------------------------------- determineBackupType

\* the monthly test placed before the yearly one
determineBackupType_MonthlyFirst(t) ==
  LET l == TzLocal(t)
      atMidnight == Hour(l) = 0 /\ Minute(l) = 0
  IN IF NUMBER_OF_MONTHLY_BACKUPS > 0 /\ DayOfMonth(l) = 1 /\ atMidnight
       THEN "monthly"
     ELSE IF NUMBER_OF_YEARLY_BACKUPS > 0 /\ DayOfYear(l) = 1 /\ atMidnight
       THEN "yearly"
     ELSE IF /\ NUMBER_OF_WEEKLY_BACKUPS > 0
             /\ Minute(l) = 0
             /\ HoursPerBackup(NUMBER_OF_WEEKLY_BACKUPS) > 0
             /\ Hour(l) % HoursPerBackup(NUMBER_OF_WEEKLY_BACKUPS) = 0
       THEN "weekly"
     ELSE "daily"

\* src/backup.js:228-256, on the instant t it reads from moment().tz(TIMEZONE).
\* hour % 0 is NaN in JavaScript, and NaN === 0 is false.
determineBackupType(t) ==
  LET l == TzLocal(t)
      atMidnight == Hour(l) = 0 /\ Minute(l) = 0
      every == IF NUMBER_OF_WEEKLY_BACKUPS > 0
                 THEN HoursPerBackup(NUMBER_OF_WEEKLY_BACKUPS)
                 ELSE 0
  IN IF NUMBER_OF_YEARLY_BACKUPS > 0 /\ DayOfYear(l) = 1 /\ atMidnight
       THEN "yearly"
     ELSE IF NUMBER_OF_MONTHLY_BACKUPS > 0 /\ DayOfMonth(l) = 1 /\ atMidnight
       THEN "monthly"
     ELSE IF /\ NUMBER_OF_WEEKLY_BACKUPS > 0
             /\ Minute(l) = 0
             /\ every > 0
             /\ Hour(l) % every = 0
       THEN "weekly"
     ELSE "daily"

\* ------------------------------------------------------------- cron triggers

\* The jobs startBackupScheduler schedules, src/backup.js:559-596
ScheduledJobs ==
  {"daily"}
    \cup (IF NUMBER_OF_WEEKLY_BACKUPS > 0 THEN {"weekly"} ELSE {})
    \cup (IF NUMBER_OF_MONTHLY_BACKUPS > 0 THEN {"monthly"} ELSE {})
    \cup (IF NUMBER_OF_YEARLY_BACKUPS > 0 THEN {"yearly"} ELSE {})

\* Whether the cron expression of the job matches instant t. node-cron reads the
\* process-local time, fires five-field expressions at second 0, and expands
\* "*/n" to the values of the field's range that n divides.
CronDue(type, t) ==
  LET l == t + SystemUtcOffset
      every == HoursPerBackup(NUMBER_OF_WEEKLY_BACKUPS)
  IN /\ Second(l) = 0
     /\ CASE type = "daily" ->
               /\ DAILY_BACKUP_INTERVAL_MINUTES > 0
               /\ Minute(l) % DAILY_BACKUP_INTERVAL_MINUTES = 0
          [] type = "weekly" ->
               /\ Minute(l) = 0
               /\ every > 0
               /\ Hour(l) % every = 0
          [] type = "monthly" ->
               Minute(l) = 0 /\ Hour(l) = 0 /\ DayOfMonth(l) = 1
          [] type = "yearly" ->
               /\ Minute(l) = 0 /\ Hour(l) = 0
               /\ DayOfMonth(l) = 1 /\ MonthOfYear(l) = 1

\* ------------------------------------------------------------ performBackup

\* a guard that never sees the lock
AlreadyRunning_Never == FALSE

\* the guard of performBackup, src/backup.js:327
AlreadyRunning == isBackupRunning

\* an early return that passes through the finally block
performBackup_skip_Releases ==
  /\ isBackupRunning' = FALSE
  /\ currentBackupInfo' = null
  /\ UNCHANGED <<backups, dirs, attempts, started, cleanups>>

\* src/backup.js:327-330: the early return
performBackup_skip ==
  UNCHANGED <<isBackupRunning, currentBackupInfo, backups, dirs, attempts, started,
              cleanups>>

\* a catch block that records the failure without its message
FailedMetadata_NoMessage(a, message) ==
  [timestamp |-> a.timestamp, type |-> a.type,
   folder_name |-> generateBackupFolderName(now), status |-> "failed",
   collections_count |-> 0, documents_count |-> 0, indexes_count |-> 0,
   error_message |-> NULL, backup_size_bytes |-> 0]

\* The metadata of the catch block, src/backup.js:443-463; the folder name is
\* generated again, at the time of the failure
FailedMetadata(a, message) ==
  [timestamp |-> a.timestamp, type |-> a.type,
   folder_name |-> generateBackupFolderName(now), status |-> "failed",
   collections_count |-> 0, documents_count |-> 0, indexes_count |-> 0,
   error_message |-> message, backup_size_bytes |-> 0]

\* a success row that carries a message
SuccessMetadata_WithMessage(a, out) ==
  [timestamp |-> a.timestamp, type |-> a.type,
   folder_name |-> a.backupFolderName, status |-> "success",
   collections_count |-> out.collections, documents_count |-> 0, indexes_count |-> 0,
   error_message |-> "none", backup_size_bytes |-> out.size]

\* The metadata of the try block, src/backup.js:408-435; parseBackupStats never
\* counts documents or indexes
SuccessMetadata(a, out) ==
  [timestamp |-> a.timestamp, type |-> a.type,
   folder_name |-> a.backupFolderName, status |-> "success",
   collections_count |-> out.collections, documents_count |-> 0, indexes_count |-> 0,
   error_message |-> NULL, backup_size_bytes |-> out.size]

\* a start that takes the lock and leaves currentBackupInfo as it was
performBackup_start_NoInfo(caller, type, mkdirOk) ==
  LET name == generateBackupFolderName(now)
      a == [caller |-> caller, type |-> type, startedAt |-> now,
            timestamp |-> FormatTimestamp(now), backupFolderName |-> name,
            created |-> mkdirOk /\ [type |-> type, name |-> name] \notin dirs,
            dumpFailed |-> FALSE, pc |-> "dump", metadata |-> {}]
  IN /\ isBackupRunning' = TRUE
     /\ UNCHANGED currentBackupInfo
     /\ dirs' = IF mkdirOk THEN dirs \cup {[type |-> type, name |-> name]} ELSE dirs
     /\ attempts' =
          Append(attempts,
                 IF mkdirOk THEN a
                 ELSE [a EXCEPT !.pc = "saveFailed",
                                !.metadata = {FailedMetadata(a, "mkdir")}])
     /\ started' = started + 1
     /\ UNCHANGED <<backups, cleanups>>

\* src/backup.js:337-398: from the lock to the await of mongodump. mkdirOk is
\* whether fs.mkdirSync returns; when it throws the catch block starts its
\* insert at once.
performBackup_start(caller, type, mkdirOk) ==
  LET name == generateBackupFolderName(now)
      a == [caller |-> caller, type |-> type, startedAt |-> now,
            timestamp |-> FormatTimestamp(now), backupFolderName |-> name,
            created |-> mkdirOk /\ [type |-> type, name |-> name] \notin dirs,
            dumpFailed |-> FALSE, pc |-> "dump", metadata |-> {}]
  IN /\ isBackupRunning' = TRUE
     /\ currentBackupInfo' = {[type |-> type, folderName |-> name,
                               startTime |-> FormatTimestamp(now)]}
     /\ dirs' = IF mkdirOk THEN dirs \cup {[type |-> type, name |-> name]} ELSE dirs
     /\ attempts' =
          Append(attempts,
                 IF mkdirOk THEN a
                 ELSE [a EXCEPT !.pc = "saveFailed",
                                !.metadata = {FailedMetadata(a, "mkdir")}])
     /\ started' = started + 1
     /\ UNCHANGED <<backups, cleanups>>

\* performBackup(backupType) as far as its first await
performBackup(caller, type) ==
  IF AlreadyRunning
    THEN performBackup_skip
    ELSE \E mkdirOk \in BOOLEAN : performBackup_start(caller, type, mkdirOk)

\* A trigger is taken while the run may still start an attempt
MayCall == AlreadyRunning \/ started < MaxAttempts

\* ---------------------------------------------------------------- retention

\* ORDER BY timestamp DESC compares the stored texts; two texts of the same
\* local reading tie, and SQLite may return tied rows in either order
SortsBefore(x, y) == x.timestamp.local > y.timestamp.local

\* rows.slice(n) of the rows sorted newest first: what lies beyond some choice
\* of the leading rows, n of them, or all but the last -n when n is negative
SliceFrom(rows, n) ==
  LET len == Cardinality(rows)
      start == IF n >= 0 THEN Min(n, len) ELSE IF len + n > 0 THEN len + n ELSE 0
  IN {rows \ keep : keep \in
        {K \in SUBSET rows : /\ Cardinality(K) = start
                             /\ \A x \in K : \A y \in rows \ K : ~SortsBefore(y, x)}}

\* a count query issued for every MAX_DAILY_BACKUPS but 0
cleanupOldBackups_CountsUnlimited(backupType) ==
  (IF backupType = "daily" /\ MAX_DAILY_BACKUPS # 0
     THEN <<[kind |-> "count", type |-> "daily", arg |-> DayNumber(TzLocal(now))]>>
     ELSE <<>>)
  \o
  (IF backupType \in {"weekly", "monthly", "yearly"} /\ MaxAge(backupType) > 0
     THEN <<[kind |-> "age", type |-> backupType,
             arg |-> SubtractDate(TzLocal(now), MaxAge(backupType), AgeUnit(backupType))]>>
     ELSE <<>>)

\* The db.all statements cleanupOldBackups issues, src/backup.js:263-316; their
\* callbacks run in later turns of the event loop. The parameter of each query
\* is computed at the call.
cleanupOldBackups(backupType) ==
  (IF backupType = "daily" /\ MAX_DAILY_BACKUPS > 0
     THEN <<[kind |-> "count", type |-> "daily", arg |-> DayNumber(TzLocal(now))]>>
     ELSE <<>>)
  \o
  (IF backupType \in {"weekly", "monthly", "yearly"} /\ MaxAge(backupType) > 0
     THEN <<[kind |-> "age", type |-> backupType,
             arg |-> SubtractDate(TzLocal(now), MaxAge(backupType), AgeUnit(backupType))]>>
     ELSE <<>>)

Rows == {backups[i] : i \in 1..Len(backups)}

\* The rows the SELECT of query q returns, src/backup.js:266-270 and 301-303
Selected(q) ==
  IF q.kind = "count"
    THEN {r \in Rows : /\ r.type = "daily"
                       /\ r.status = "success"
                       /\ SqlDate(r.timestamp) = q.arg}
    ELSE {r \in Rows : r.type = q.type /\ SqlDate(r.timestamp) < q.arg}

\* The sets of rows the callback may walk to delete, src/backup.js:277-278, 307
ToDelete(q) ==
  IF q.kind = "count"
    THEN IF Cardinality(Selected(q)) > MAX_DAILY_BACKUPS
           THEN SliceFrom(Selected(q), MAX_DAILY_BACKUPS)
           ELSE {{}}
    ELSE {Selected(q)}

\* path.join(BACKUP_PATH, type, folder_name) of the rows
PathsOf(q, rows) == {[type |-> q.type, name |-> r.folder_name] : r \in rows}

RemoveAt(seq, k) == [j \in 1..(Len(seq) - 1) |-> IF j < k THEN seq[j] ELSE seq[j + 1]]

\* a callback that also deletes the rows whose directories it removes
CleanupCallback_DeletesRows(k, err, fault) ==
  /\ proc = "running"
  /\ k \in 1..Len(cleanups)
  /\ cleanups' = RemoveAt(cleanups, k)
  /\ ~err
  /\ ~fault
  /\ \E rows \in ToDelete(cleanups[k]) :
       /\ dirs' = dirs \ PathsOf(cleanups[k], rows)
       /\ backups' = SelectSeq(backups, LAMBDA r : r \notin rows)
  /\ UNCHANGED <<config, now, proc, isBackupRunning, currentBackupInfo, attempts,
                 started, schedPc, cronJobs, fired, missingCheck, lastType>>

\* The callback of one cleanup query. err: the query failed and the callback
\* returns. fault: one fs.rmSync throws; the exception leaves the callback
\* uncaught, after the directories before it were removed.
CleanupCallback(k, err, fault) ==
  /\ proc = "running"
  /\ k \in 1..Len(cleanups)
  /\ cleanups' = RemoveAt(cleanups, k)
  /\ IF err
       THEN /\ ~fault
            /\ UNCHANGED <<dirs, proc>>
       ELSE \E rows \in ToDelete(cleanups[k]) :
              LET targets == PathsOf(cleanups[k], rows) \cap dirs
              IN IF fault
                   THEN /\ targets # {}
                        /\ \E failed \in targets :
                             \E removed \in SUBSET (targets \ {failed}) :
                               dirs' = dirs \ removed
                        /\ proc' = "exited"
                   ELSE /\ dirs' = dirs \ targets
                        /\ UNCHANGED proc
  /\ UNCHANGED <<config, now, isBackupRunning, currentBackupInfo, backups, attempts,
                 started, schedPc, cronJobs, fired, missingCheck, lastType>>

\* ------------------------------------------- checkAndCreateMissingBackups

CheckOrder == <<"weekly", "monthly", "yearly">>

PeriodUnit(type) ==
  CASE type = "weekly" -> "week"
    [] type = "monthly" -> "month"
    [] type = "yearly" -> "year"

IndexOf(type) == CHOOSE j \in 1..3 : CheckOrder[j] = type

NoCheck == [pc |-> "unset", type |-> "none", deadline |-> 0, now |-> 0]

\* The check moves on past position k of CheckOrder: to the query of the next
\* enabled type (src/backup.js:483, 503, 523), or to its end. t is the instant
\* read at src/backup.js:480.
MissingCheckAfter(k, t) ==
  LET rest == {j \in (k + 1)..3 : NumberOfBackups(CheckOrder[j]) > 0}
  IN IF rest = {}
       THEN [pc |-> "done", type |-> "none", deadline |-> 0, now |-> 0]
       ELSE [pc |-> "query",
             type |-> CheckOrder[CHOOSE j \in rest : \A i \in rest : j <= i],
             deadline |-> 0, now |-> t]

\* a COUNT since the instant read, not since the start of its period
CountSince_NoStartOf(type, t) ==
  Cardinality({r \in Rows : /\ r.type = type
                            /\ r.status = "success"
                            /\ SqlInstant(r.timestamp) >= TzInstant(TzLocal(t))})

\* COUNT(*) of the successful rows of the type not older than the start of the
\* current period, src/backup.js:487-490
CountSince(type, t) ==
  Cardinality({r \in Rows : /\ r.type = type
                            /\ r.status = "success"
                            /\ SqlInstant(r.timestamp)
                                 >= TzInstant(StartOf(TzLocal(t), PeriodUnit(type)))})

\* What the caller of performBackup does when the call settles
Resume(caller, rejected) ==
  CASE caller = "cron" ->
         \* the job's promise rejects inside node-cron
         /\ IF rejected THEN proc' \in {"running", "exited"} ELSE UNCHANGED proc
         /\ UNCHANGED <<schedPc, missingCheck>>
    [] caller = "initial" ->
         \* src/backup.js:606-608, and 806-809 on a rejection
         /\ IF rejected
              THEN proc' = "exited" /\ UNCHANGED schedPc
              ELSE schedPc' = "started" /\ UNCHANGED proc
         /\ UNCHANGED missingCheck
    [] caller = "backfill" ->
         \* src/backup.js:498, 518, 538; nothing catches a rejection
         /\ IF rejected
              THEN proc' = "exited" /\ UNCHANGED missingCheck
              ELSE /\ missingCheck' = MissingCheckAfter(IndexOf(missingCheck.type),
                                                        missingCheck.now)
                   /\ UNCHANGED proc
         /\ UNCHANGED schedPc

\* ------------------------------------------------- the steps of an attempt

\* What mongodump may end with: exit 0 with an artifact, or an error of exec
DumpOutcomes == {[ok |-> TRUE, size |-> 1, collections |-> 1], [ok |-> FALSE]}

\* mongodump exits, src/backup.js:390-435 up to the await of the insert, or
\* 442-450 when exec reports an error
DumpExit(i, out) ==
  /\ proc = "running"
  /\ i \in 1..Len(attempts)
  /\ attempts[i].pc = "dump"
  /\ attempts' =
       [attempts EXCEPT ![i] =
          IF out.ok
            THEN [@ EXCEPT !.pc = "saveSuccess",
                           !.metadata = {SuccessMetadata(attempts[i], out)}]
            ELSE [@ EXCEPT !.pc = "saveFailed", !.dumpFailed = TRUE,
                           !.metadata = {FailedMetadata(attempts[i], "dump")}]]
  /\ UNCHANGED <<config, now, proc, isBackupRunning, currentBackupInfo, backups, dirs,
                 started, cleanups, schedPc, cronJobs, fired, missingCheck, lastType>>

\* a finally block that clears the flag and keeps the info
ReleaseLock_KeepsInfo ==
  /\ isBackupRunning' = FALSE
  /\ UNCHANGED currentBackupInfo

\* the finally block, src/backup.js:464-467
ReleaseLock ==
  /\ isBackupRunning' = FALSE
  /\ currentBackupInfo' = null

\* an insert after which cleanupOldBackups is called whatever the row says
InsertResolved_AlwaysCleans(i) ==
  LET a == attempts[i]
      id == Len(backups) + 1
      row == [id |-> id] @@ (CHOOSE m \in a.metadata : TRUE)
  IN /\ proc = "running"
     /\ i \in 1..Len(attempts)
     /\ a.pc \in {"saveSuccess", "saveFailed"}
     /\ backups' = Append(backups, row)
     /\ cleanups' = cleanups \o cleanupOldBackups(a.type)
     /\ ReleaseLock
     /\ attempts' = RemoveAt(attempts, i)
     /\ Resume(a.caller, FALSE)
     /\ UNCHANGED <<config, now, dirs, started, cronJobs, fired, lastType>>

\* saveBackupMetadata resolves: the row is in the table (id by AUTOINCREMENT);
\* after the insert of the try block cleanupOldBackups is called; then finally
InsertResolved(i) ==
  LET a == attempts[i]
      id == Len(backups) + 1
      row == [id |-> id] @@ (CHOOSE m \in a.metadata : TRUE)
  IN /\ proc = "running"
     /\ i \in 1..Len(attempts)
     /\ a.pc \in {"saveSuccess", "saveFailed"}
     /\ backups' = Append(backups, row)
     /\ cleanups' = IF a.pc = "saveSuccess"
                      THEN cleanups \o cleanupOldBackups(a.type)
                      ELSE cleanups
     /\ ReleaseLock
     /\ attempts' = RemoveAt(attempts, i)
     /\ Resume(a.caller, FALSE)
     /\ UNCHANGED <<config, now, dirs, started, cronJobs, fired, lastType>>

\* saveBackupMetadata rejects. In the try block the catch block takes over and
\* starts the insert of the failure row; in the catch block the error leaves
\* performBackup through finally.
InsertRejected(i) ==
  LET a == attempts[i]
  IN /\ proc = "running"
     /\ i \in 1..Len(attempts)
     /\ a.pc \in {"saveSuccess", "saveFailed"}
     /\ IF a.pc = "saveSuccess"
          THEN /\ attempts' = [attempts EXCEPT ![i] =
                                 [@ EXCEPT !.pc = "saveFailed",
                                           !.metadata = {FailedMetadata(a, "insert")}]]
               /\ UNCHANGED <<isBackupRunning, currentBackupInfo, proc, schedPc,
                              missingCheck>>
          ELSE /\ attempts' = RemoveAt(attempts, i)
               /\ ReleaseLock
               /\ Resume(a.caller, TRUE)
     /\ UNCHANGED <<config, now, backups, dirs, started, cleanups, cronJobs, fired,
                    lastType>>

\* ----------------------------------------------------------------- triggers

\* The callback of a cron job, src/backup.js:565-567, 577-579, 585-587, 593-595
CronFire(type) ==
  /\ proc = "running"
  /\ type \in cronJobs
  /\ type \notin fired
  /\ CronDue(type, now)
  /\ MayCall
  /\ fired' = fired \cup {type}
  /\ performBackup("cron", type)
  /\ UNCHANGED <<config, now, proc, schedPc, cronJobs, missingCheck, lastType>>

\* The timer of checkAndCreateMissingBackups expires, src/backup.js:473-483:
\* with the lock held the check is put off by 30 s, else it reads the clock
\* and starts the first query
MissingCheckTimer ==
  /\ proc = "running"
  /\ missingCheck.pc = "timer"
  /\ now >= missingCheck.deadline
  /\ missingCheck' =
       IF isBackupRunning
         THEN [missingCheck EXCEPT !.deadline = now + 30]
         ELSE MissingCheckAfter(0, now)
  /\ UNCHANGED <<config, now, proc, isBackupRunning, currentBackupInfo, backups, dirs,
                 attempts, started, cleanups, schedPc, cronJobs, fired, lastType>>

\* The callback of a COUNT query, src/backup.js:491-499 (and 511-519, 531-539):
\* with no error and no row counted performBackup(type) is called and awaited;
\* a call that returns at once lets the check move on in the same turn
MissingCheckResult(err) ==
  LET type == missingCheck.type
      missing == ~err /\ CountSince(type, missingCheck.now) = 0
  IN /\ proc = "running"
     /\ missingCheck.pc = "query"
     /\ IF missing
          THEN /\ MayCall
               /\ performBackup("backfill", type)
               /\ missingCheck' =
                    IF AlreadyRunning
                      THEN MissingCheckAfter(IndexOf(type), missingCheck.now)
                      ELSE [missingCheck EXCEPT !.pc = "run"]
          ELSE /\ missingCheck' = MissingCheckAfter(IndexOf(type), missingCheck.now)
               /\ UNCHANGED <<isBackupRunning, currentBackupInfo, backups, dirs,
                              attempts, started, cleanups>>
     /\ UNCHANGED <<config, now, proc, schedPc, cronJobs, fired, lastType>>

\* testConnection resolves true, src/backup.js:553-606: the jobs are scheduled,
\* the missing-backup check is put on a 5 s timer and the initial daily backup
\* is called, all in one turn
StartScheduler ==
  /\ proc = "running"
  /\ schedPc = "probe"
  /\ cronJobs' = ScheduledJobs
  /\ missingCheck' = [NoCheck EXCEPT !.pc = "timer", !.deadline = now + 5]
  /\ performBackup("initial", "daily")
  /\ schedPc' = "initial"
  /\ UNCHANGED <<config, now, proc, fired, lastType>>

\* testConnection resolves false, src/backup.js:554-557
ProbeFailed ==
  /\ proc = "running"
  /\ schedPc = "probe"
  /\ proc' = "exited"
  /\ UNCHANGED <<config, now, isBackupRunning, currentBackupInfo, backups, dirs,
                 attempts, started, cleanups, schedPc, cronJobs, fired, missingCheck,
                 lastType>>

\* SIGINT or SIGTERM: the handler calls process.exit(0), src/backup.js:611-620,
\* whatever is in flight
Shutdown ==
  /\ proc = "running"
  /\ proc' = "exited"
  /\ UNCHANGED <<config, now, isBackupRunning, currentBackupInfo, backups, dirs,
                 attempts, started, cleanups, schedPc, cronJobs, fired, missingCheck,
                 lastType>>

\* -------------------------------------------------------------------- clock

\* 2025-12-31T23:59:50Z, ten seconds before the instant all four jobs are due
StartInstant == 365 * 86400 - 10

\* The instants at which the event loop runs callbacks, as seconds after
\* StartInstant: start, the 5 s timer, 2026-01-01T00:00:00Z, the second after
\* it, and the 30 s retry of a check put off at midnight
Clock == {StartInstant + d : d \in {0, 5, 10, 40}}

\* The clock is read t at the next callback
Tick(t) ==
  /\ proc = "running"
  /\ t > now
  /\ now' = t
  /\ fired' = {}
  /\ UNCHANGED <<config, proc, isBackupRunning, currentBackupInfo, backups, dirs,
                 attempts, started, cleanups, schedPc, cronJobs, missingCheck, lastType>>

\* ----------------------------------------------------------- initial states

\* A row left by an earlier run of the process
PriorRow(id, type, t, status) ==
  [id |-> id, timestamp |-> FormatTimestamp(t), type |-> type,
   folder_name |-> generateBackupFolderName(t), status |-> status,
   collections_count |-> IF status = "success" THEN 1 ELSE 0,
   documents_count |-> 0, indexes_count |-> 0,
   error_message |-> IF status = "success" THEN NULL ELSE "dump",
   backup_size_bytes |-> IF status = "success" THEN 1 ELSE 0]

\* The table as earlier runs left it: successful rows of the listed types,
\* written an hour before the start, each with its directory
PriorRows(types) == [i \in 1..Len(types) |-> PriorRow(i, types[i], StartInstant - 3600, "success")]

\* The environment with nothing set: every setting takes its fallback, UTC
DefaultEnv ==
  [DAILY_BACKUP_INTERVAL_MINUTES |-> undefined, MAX_DAILY_BACKUPS |-> undefined,
   NUMBER_OF_WEEKLY_BACKUPS |-> undefined, MAX_AGE_OF_WEEKLY_BACKUPS |-> undefined,
   NUMBER_OF_MONTHLY_BACKUPS |-> undefined, MAX_AGE_OF_MONTHLY_BACKUPS |-> undefined,
   NUMBER_OF_YEARLY_BACKUPS |-> undefined, MAX_AGE_OF_YEARLY_BACKUPS |-> undefined,
   tz |-> 0]

\* The runs checked, each an environment and the types of the rows earlier
\* runs left: a first run with nothing set, and a later run that keeps one
\* daily backup
Runs ==
  {[env |-> DefaultEnv, prior |-> <<>>],
   [env |-> [DefaultEnv EXCEPT !.MAX_DAILY_BACKUPS = {1}],
    prior |-> <<"weekly", "monthly", "yearly">>]}

\* The state of a fresh process, src/backup.js:41-53, before startApplication:
\* a MAX_DAILY_BACKUPS of 0 ends it at once
Fresh ==
  /\ proc = IF MAX_DAILY_BACKUPS = 0 THEN "exited" ELSE "running"
  /\ isBackupRunning = FALSE
  /\ currentBackupInfo = null
  /\ attempts = <<>>
  /\ started = 0
  /\ cleanups = <<>>
  /\ schedPc = "probe"
  /\ cronJobs = {}
  /\ fired = {}
  /\ missingCheck = NoCheck
  /\ lastType = "none"

Init ==
  /\ \E run \in Runs :
       /\ LoadConfig(run.env)
       /\ backups = PriorRows(run.prior)
       /\ dirs = {[type |-> backups[i].type, name |-> backups[i].folder_name] :
                    i \in 1..Len(backups)}
  /\ Fresh
  /\ now = StartInstant

Next ==
  \/ StartScheduler
  \/ ProbeFailed
  \/ \E type \in Types : CronFire(type)
  \/ MissingCheckTimer
  \/ \E err \in BOOLEAN : MissingCheckResult(err)
  \/ \E i \in 1..Len(attempts) : \E out \in DumpOutcomes : DumpExit(i, out)
  \/ \E i \in 1..Len(attempts) : InsertResolved(i)
  \/ \E i \in 1..Len(attempts) : InsertRejected(i)
  \/ \E k \in 1..Len(cleanups) : \E err, fault \in BOOLEAN : CleanupCallback(k, err, fault)
  \/ \E t \in Clock : Tick(t)
  \/ Shutdown

Spec == Init /\ [][Next]_vars

\* ------------------------------------- startup with a daily count set amiss

\* Environments that set MAX_DAILY_BACKUPS to 0 and to -2
ConfigEnvironments == {[DefaultEnv EXCEPT !.MAX_DAILY_BACKUPS = {n}] : n \in {0, -2}}

\* A process started with one of them over the table of an earlier run
InitConfig ==
  /\ \E env \in ConfigEnvironments : LoadConfig(env)
  /\ backups = PriorRows(<<"weekly", "monthly", "yearly">>)
  /\ dirs = {[type |-> backups[i].type, name |-> backups[i].folder_name] :
               i \in 1..Len(backups)}
  /\ Fresh
  /\ now = StartInstant

SpecConfig == InitConfig /\ [][Next]_vars

\* ------------------------------------------- determineBackupType, on its own

\* performBackup called with no type asks determineBackupType for the label,
\* src/backup.js:333-335
Classify ==
  /\ lastType' = determineBackupType(now)
  /\ UNCHANGED <<config, now, proc, isBackupRunning, currentBackupInfo, backups, dirs,
                 attempts, started, cleanups, schedPc, cronJobs, fired, missingCheck>>

\* The clock is read t at the next call
ClassifyAt(t) ==
  /\ now' = t
  /\ lastType' = "none"
  /\ UNCHANGED <<config, proc, isBackupRunning, currentBackupInfo, backups, dirs,
                 attempts, started, cleanups, schedPc, cronJobs, fired, missingCheck>>

\* Instants around 2026-01-01T00:00:00Z: that midnight, the same minute, the
\* next minute, 01:00, noon, the midnight of Jan 2, Jan 15 06:00, the midnight
\* of Feb 1, and two hours before the new year (midnight in a zone at +02:00)
ClassifyInstants ==
  {365 * 86400 + d :
     d \in {0, 30, 60, 3600, 12 * 3600, 86400, 14 * 86400 + 6 * 3600, 31 * 86400, -7200}}

\* Environments with each coarser cadence on (its fallback count) or off, the
\* weekly count also 14 (every 12 h) and 400 (an interval that rounds to 0),
\* in UTC and at +02:00
ClassifyEnvironments ==
  {[DefaultEnv EXCEPT !.NUMBER_OF_YEARLY_BACKUPS = {y}, !.NUMBER_OF_MONTHLY_BACKUPS = {m},
                      !.NUMBER_OF_WEEKLY_BACKUPS = {w}, !.tz = z] :
     y \in {0, -1}, m \in {0, -1}, w \in {0, -1, 14, 400}, z \in {0, 7200}}

InitClassify ==
  /\ \E env \in ClassifyEnvironments : LoadConfig(env)
  /\ Fresh
  /\ now \in ClassifyInstants
  /\ backups = <<>>
  /\ dirs = {}

NextClassify ==
  \/ Classify
  \/ \E t \in ClassifyInstants : ClassifyAt(t)

SpecClassify == InitClassify /\ [][NextClassify]_vars

\* ------------------------------------------------ retention, in steady state

\* 2026-01-01T03:00:00Z and the next full hour: instants at which the daily
\* job is due, and a second in between
RetentionClock == {365 * 86400 + d : d \in {3 * 3600, 3 * 3600 + 1, 4 * 3600}}

\* The daily rows of earlier attempts: one an hour before the UTC midnight of
\* 2026-01-01 and one at each of the three full hours after it, all successful,
\* each with its directory
PriorDaily ==
  [i \in 1..4 |-> PriorRow(i, "daily", 365 * 86400 + (i - 2) * 3600, "success")]

\* Environments that keep 1 or 3 daily backups, in UTC and at +02:00
RetentionEnvironments ==
  {[DefaultEnv EXCEPT !.MAX_DAILY_BACKUPS = {n}, !.tz = z] : n \in {1, 3}, z \in {0, 7200}}

\* A process that finished its startup earlier, read at instant t with the
\* lock free and the table as its earlier attempts left it
Steady(t, rows) ==
  /\ now = t
  /\ proc = "running"
  /\ isBackupRunning = FALSE
  /\ currentBackupInfo = null
  /\ backups = rows
  /\ dirs = {[type |-> backups[i].type, name |-> backups[i].folder_name] :
               i \in 1..Len(backups)}
  /\ attempts = <<>>
  /\ started = 0
  /\ cleanups = <<>>
  /\ schedPc = "started"
  /\ cronJobs = ScheduledJobs
  /\ fired = {}
  /\ missingCheck = [pc |-> "done", type |-> "none", deadline |-> 0, now |-> 0]
  /\ lastType = "none"

\* The process read at 03:00:00Z on 2026-01-01
InitRetention ==
  /\ \E env \in RetentionEnvironments : LoadConfig(env)
  /\ Steady(365 * 86400 + 3 * 3600, PriorDaily)

NextRetention ==
  \/ \E type \in Types : CronFire(type)
  \/ \E i \in 1..Len(attempts) : \E out \in DumpOutcomes : DumpExit(i, out)
  \/ \E i \in 1..Len(attempts) : InsertResolved(i)
  \/ \E i \in 1..Len(attempts) : InsertRejected(i)
  \/ \E k \in 1..Len(cleanups) : \E err, fault \in BOOLEAN : CleanupCallback(k, err, fault)
  \/ \E t \in RetentionClock : Tick(t)

SpecRetention == InitRetention /\ [][NextRetention]_vars

\* -------------------------------------------- age retention, in steady state

\* The number of the Sunday-based week of a local reading; week 0 holds
\* 2025-01-01
WeekIndex(l) == (DayNumber(l) + 3) \div 7

\* Day number of weekday d (0 = Sunday) of week w
DayOfWeekIn(w, d) == 7 * w - 3 + d

\* 00:00:00Z on the Sunday, the Wednesday and the Saturday of week 10: instants
\* at which the weekly job (and the daily one) is due
AgeClock == {DayOfWeekIn(10, d) * 86400 : d \in {0, 3, 6}}

\* The weekly rows of earlier attempts: at noon of the Sunday, the Wednesday
\* and the Saturday of weeks 5 and 6, all successful, each with its directory;
\* and the row of an attempt that failed at once on the Monday of week 5, whose
\* directory was left on disk
PriorWeekly ==
  [i \in 1..7 |->
     IF i = 7
       THEN PriorRow(i, "weekly", DayOfWeekIn(5, 1) * 86400 + 12 * 3600, "failed")
       ELSE PriorRow(i, "weekly",
                     DayOfWeekIn(5 + (i - 1) \div 3, 3 * ((i - 1) % 3)) * 86400 + 12 * 3600,
                     "success")]

\* The maximum age of weekly backups unset (the fallback, 4 weeks), set to 0
\* and set to -1, in UTC and at +02:00
AgeEnvironments ==
  {[DefaultEnv EXCEPT !.MAX_AGE_OF_WEEKLY_BACKUPS = a, !.tz = z] :
     a \in {undefined, {0}, {-1}}, z \in {0, 7200}}

\* The process read at 00:00:00Z on the Sunday of week 10
InitAge ==
  /\ \E env \in AgeEnvironments : LoadConfig(env)
  /\ Steady(DayOfWeekIn(10, 0) * 86400, PriorWeekly)

NextAge ==
  \/ \E type \in Types : CronFire(type)
  \/ \E i \in 1..Len(attempts) : \E out \in DumpOutcomes : DumpExit(i, out)
  \/ \E i \in 1..Len(attempts) : InsertResolved(i)
  \/ \E i \in 1..Len(attempts) : InsertRejected(i)
  \/ \E k \in 1..Len(cleanups) : \E err, fault \in BOOLEAN : CleanupCallback(k, err, fault)
  \/ \E t \in AgeClock : Tick(t)

SpecAge == InitAge /\ [][NextAge]_vars

\* ------------------------------------------ the cron jobs, during a long dump

\* 2025-03-09T00:00:00Z, the Sunday of week 10, and each minute after it
CronClock == {DayOfWeekIn(10, 0) * 86400 + 60 * k : k \in 0..CronMinutes}

\* The daily interval unset (60), 45 and 90 minutes; the weekly count unset
\* (7), 1, 10 and 14
CronEnvironments ==
  {[DefaultEnv EXCEPT !.DAILY_BACKUP_INTERVAL_MINUTES = m, !.NUMBER_OF_WEEKLY_BACKUPS = n] :
     m \in {undefined, {45}, {90}}, n \in {undefined, {1}, {10}, {14}}}

\* The process read at the first instant of CronClock, a daily attempt in
\* flight: the daily job started it an hour earlier and its mongodump is still
\* running
InitCron ==
  LET t0 == DayOfWeekIn(10, 0) * 86400 - 3600
      name == generateBackupFolderName(t0)
  IN /\ \E env \in CronEnvironments : LoadConfig(env)
     /\ now = t0 + 3600
     /\ proc = "running"
     /\ isBackupRunning = TRUE
     /\ currentBackupInfo = {[type |-> "daily", folderName |-> name,
                              startTime |-> FormatTimestamp(t0)]}
     /\ backups = <<>>
     /\ dirs = {[type |-> "daily", name |-> name]}
     /\ attempts = <<[caller |-> "cron", type |-> "daily", startedAt |-> t0,
                      timestamp |-> FormatTimestamp(t0), backupFolderName |-> name,
                      created |-> TRUE, dumpFailed |-> FALSE, pc |-> "dump",
                      metadata |-> {}]>>
     /\ started = 1
     /\ cleanups = <<>>
     /\ schedPc = "started"
     /\ cronJobs = ScheduledJobs
     /\ fired = {}
     /\ missingCheck = [pc |-> "done", type |-> "none", deadline |-> 0, now |-> 0]
     /\ lastType = "none"

\* While mongodump runs only the cron callbacks run
NextCron ==
  \/ \E type \in Types : CronFire(type)
  \/ \E t \in CronClock : Tick(t)

SpecCron == InitCron /\ [][NextCron]_vars

\* =================================================================== claims

\* A call of performBackup made in this step found the lock held
SkippedCall ==
  /\ isBackupRunning
  /\ \/ \E type \in Types : CronFire(type)
     \/ /\ MissingCheckResult(FALSE)
        /\ CountSince(missingCheck.type, missingCheck.now) = 0

\* C1: under every interleaving of the four cron jobs, the initial backup and
\* the calls of the missing-backup check, at most one performBackup body is in
\* flight.
C1_MutualExclusion == Len(attempts) <= 1

\* All four jobs ran their callback at this instant and one attempt, started
\* by one of them, is in flight
C1_Witness ==
  /\ Cardinality(fired) = 4
  /\ Len(attempts) = 1
  /\ attempts[1].caller = "cron"
  /\ attempts[1].startedAt = now

\* C2: a call of performBackup that finds isBackupRunning true changes nothing:
\* no row, no directory, no attempt started or queued, the lock and
\* currentBackupInfo of the attempt in flight untouched, the process alive.
C2_SkipIsNoOp ==
  [][SkippedCall =>
       UNCHANGED <<isBackupRunning, currentBackupInfo, backups, dirs, attempts,
                   started, cleanups, proc>>]_vars

\* A cron callback ran while the initial backup was in flight
C2_Witness ==
  /\ isBackupRunning
  /\ Len(attempts) = 1
  /\ attempts[1].caller = "initial"
  /\ fired # {}

\* C3: whenever no attempt is in flight, whatever path the attempts took out,
\* isBackupRunning is false and currentBackupInfo is null; the lock is held
\* only while an attempt is in flight.
C3_LockReleased ==
  /\ isBackupRunning <=> Len(attempts) > 0
  /\ Len(attempts) = 0 => currentBackupInfo = null

\* An attempt ran and left through the rejected insert of the catch block: no
\* row was written, and the lock is free
C3_Witness ==
  /\ started >= 1
  /\ attempts = <<>>
  /\ backups = <<>>
  /\ ~isBackupRunning
  /\ currentBackupInfo = null

\* Attempt i leaves performBackup in this step
Exits(i) ==
  \/ InsertResolved(i)
  \/ attempts[i].pc = "saveFailed" /\ InsertRejected(i)

\* The row is the record of a failure
IsFailureRow(r) ==
  /\ r.status = "failed"
  /\ r.error_message # NULL
  /\ r.backup_size_bytes = 0
  /\ r.collections_count = 0
  /\ r.documents_count = 0
  /\ r.indexes_count = 0

\* C4, as claimed: an attempt whose dump failed adds exactly one row, the
\* record of a failure, by the time it leaves performBackup.
C4_ExactlyOneFailedRow ==
  [][\A i \in 1..Len(attempts) :
       attempts[i].dumpFailed =>
         /\ ~Exits(i) => backups' = backups
         /\ Exits(i) => /\ Len(backups') = Len(backups) + 1
                        /\ SubSeq(backups', 1, Len(backups)) = backups
                        /\ IsFailureRow(backups'[Len(backups')])]_vars

\* C4, amended: an attempt whose dump failed adds one row, the record of a
\* failure (status failed, a message, size and counts 0), when the insert of
\* the catch block succeeds, and no row when that insert is rejected; it never
\* adds a success row.
C4_AtMostOneFailedRow ==
  [][\A i \in 1..Len(attempts) :
       attempts[i].dumpFailed =>
         /\ ~InsertResolved(i) => backups' = backups
         /\ InsertResolved(i) => /\ Len(backups') = Len(backups) + 1
                                 /\ SubSeq(backups', 1, Len(backups)) = backups
                                 /\ IsFailureRow(backups'[Len(backups')])]_vars

\* The failure row of an attempt whose dump failed is in the table, and the
\* attempt is over
C4_Witness ==
  /\ attempts = <<>>
  /\ \E r \in Rows : r.status = "failed" /\ r.error_message = "dump"

\* C5, as claimed: the directory an attempt created is gone when the attempt
\* leaves performBackup after its dump failed.
C5_NoDirectoryLeft ==
  [][\A i \in 1..Len(attempts) :
       (attempts[i].dumpFailed /\ attempts[i].created /\ Exits(i)) =>
         [type |-> attempts[i].type, name |-> attempts[i].backupFolderName] \notin dirs']_vars

\* The cron expression that ranks highest among the jobs due at instant t
HighestDue(t) ==
  LET due == {type \in cronJobs : CronDue(type, t)}
  IN CASE "yearly" \in due -> "yearly"
       [] "monthly" \in due -> "monthly"
       [] "weekly" \in due -> "weekly"
       [] OTHER -> "daily"

\* C6, as claimed: an attempt started by a cron job carries the label of the
\* highest-ranking job due at the instant it started (yearly > monthly >
\* weekly > daily).
C6_HighestPrecedenceRuns ==
  \A i \in 1..Len(attempts) :
    attempts[i].caller = "cron" => attempts[i].type = HighestDue(attempts[i].startedAt)

\* C8, as claimed: when the missing-backup check finds no successful row of a
\* type in the current period, an attempt of that type starts.
C8_MissingIsExecuted ==
  [][(/\ MissingCheckResult(FALSE)
      /\ CountSince(missingCheck.type, missingCheck.now) = 0) =>
       /\ started' = started + 1
       /\ Len(attempts') = Len(attempts) + 1
       /\ attempts'[Len(attempts')].type = missingCheck.type
       /\ attempts'[Len(attempts')].caller = "backfill"]_vars

\* A successful row of the type is in the table, written in the period (week,
\* month, year of the configured zone) that holds instant t
HasSuccessInPeriod(type, t) ==
  \E r \in Rows :
    /\ r.type = type
    /\ r.status = "success"
    /\ r.timestamp.local - r.timestamp.off
         >= StartOf(t + TIMEZONE, PeriodUnit(type)) - TIMEZONE

\* C9: when a successful row of the type exists in the current period the
\* check of that type starts no attempt and changes neither the table, the
\* directories nor RunState: the check moves on to the next type or ends. The
\* table being unchanged, a second check of the same period finds the same row
\* and does the same.
C9_PresentIsLeftAlone ==
  [][\A err \in BOOLEAN :
       (/\ MissingCheckResult(err)
        /\ HasSuccessInPeriod(missingCheck.type, missingCheck.now)) =>
          /\ UNCHANGED <<isBackupRunning, currentBackupInfo, backups, dirs, attempts,
                         started, cleanups>>
          /\ missingCheck'.pc \in {"query", "done"}]_vars

\* The check has passed the weekly and the monthly type, whose rows an earlier
\* run wrote in this week and month, and started nothing: the only attempt of
\* the run is the initial one
C9_Witness ==
  /\ missingCheck.pc = "query"
  /\ missingCheck.type = "yearly"
  /\ HasSuccessInPeriod("weekly", missingCheck.now)
  /\ HasSuccessInPeriod("monthly", missingCheck.now)
  /\ started = 1
  /\ Len(backups) = 4

\* C7: determineBackupType returns the first label whose condition holds, in
\* the order yearly (count > 0, day 1 of the year, 00:00), monthly (count > 0,
\* day 1 of the month, 00:00), weekly (count > 0, minute 0, the hour a multiple
\* of round(24 / (count / 7))), daily.
C7_FirstMatchingLabel ==
  lastType # "none" =>
    LET l == now + TIMEZONE
        hour == (l \div 3600) % 24
        minute == (l \div 60) % 60
        yearly == NUMBER_OF_YEARLY_BACKUPS > 0 /\ DayOfYear(l) = 1 /\ hour = 0 /\ minute = 0
        monthly == NUMBER_OF_MONTHLY_BACKUPS > 0 /\ DayOfMonth(l) = 1 /\ hour = 0 /\ minute = 0
        weekly == /\ NUMBER_OF_WEEKLY_BACKUPS > 0
                  /\ minute = 0
                  /\ \E every \in 1..168 :
                       /\ 2 * every * NUMBER_OF_WEEKLY_BACKUPS
                            <= 336 + NUMBER_OF_WEEKLY_BACKUPS
                       /\ 336 + NUMBER_OF_WEEKLY_BACKUPS
                            < 2 * (every + 1) * NUMBER_OF_WEEKLY_BACKUPS
                       /\ hour % every = 0
    IN /\ yearly => lastType = "yearly"
       /\ (~yearly /\ monthly) => lastType = "monthly"
       /\ (~yearly /\ ~monthly /\ weekly) => lastType = "weekly"
       /\ (~yearly /\ ~monthly /\ ~weekly) => lastType = "daily"

\* The label of the first minute of a year is yearly with all four cadences on
C7_Witness ==
  /\ lastType = "yearly"
  /\ NUMBER_OF_MONTHLY_BACKUPS > 0
  /\ NUMBER_OF_WEEKLY_BACKUPS > 0
  /\ DayOfYear(now + TIMEZONE) = 1

\* C10, as claimed: the callback of the daily count query, when the query and
\* every removal succeed, keeps the directories of the MAX_DAILY_BACKUPS newest
\* successful daily rows of today (the day of the configured zone) and removes
\* exactly the directories of today's other successful daily rows.
C10_KeepsNewestOfToday ==
  [][\A k \in 1..Len(cleanups) :
       (cleanups[k].kind = "count" /\ CleanupCallback(k, FALSE, FALSE)) =>
         LET todays == {r \in Rows : /\ r.type = "daily"
                                     /\ r.status = "success"
                                     /\ DayNumber(r.timestamp.local) = cleanups[k].arg}
             path(r) == [type |-> "daily", name |-> r.folder_name]
         IN \E keep \in SUBSET todays :
              /\ Cardinality(keep) = Min(MAX_DAILY_BACKUPS, Cardinality(todays))
              /\ \A x \in keep : \A y \in todays \ keep :
                   x.timestamp.local >= y.timestamp.local
              /\ dirs' = dirs \ {path(r) : r \in todays \ keep}]_vars

\* C11, as claimed: with weekly backups kept 4 weeks, the callback of the
\* weekly age query issued in week w, when the query and every removal
\* succeed, leaves no directory of a weekly row stamped in week w - 5 and
\* removes no directory of a weekly row stamped in week w - 4, whatever the
\* weekdays of the query and of the rows.
C11_WeekBoundary ==
  [][\A k \in 1..Len(cleanups) :
       (/\ cleanups[k].kind = "age"
        /\ cleanups[k].type = "weekly"
        /\ MAX_AGE_OF_WEEKLY_BACKUPS = 4
        /\ CleanupCallback(k, FALSE, FALSE)) =>
         LET w == WeekIndex((cleanups[k].arg + 28) * 86400)
         IN \A r \in Rows :
              r.type = "weekly" =>
                LET path == [type |-> "weekly", name |-> r.folder_name]
                IN /\ WeekIndex(r.timestamp.local) = w - 5 => path \notin dirs'
                   /\ (WeekIndex(r.timestamp.local) = w - 4 /\ path \in dirs)
                        => path \in dirs']_vars

\* C12, as claimed: when the callback of the daily count query has run, the
\* query and every removal having succeeded, at most MAX_DAILY_BACKUPS daily
\* directories are on disk.
C12_AtMostMaxDailyKept ==
  [][\A k \in 1..Len(cleanups) :
       (cleanups[k].kind = "count" /\ CleanupCallback(k, FALSE, FALSE)) =>
         Cardinality({d \in dirs' : d.type = "daily"}) <= MAX_DAILY_BACKUPS]_vars

\* C13: with MAX_DAILY_BACKUPS = -1 no step removes a daily directory.
C13_UnlimitedNeverDeletes ==
  [][MAX_DAILY_BACKUPS = -1 =>
       \A d \in dirs : d.type = "daily" => d \in dirs']_vars

\* With MAX_DAILY_BACKUPS = -1 two daily attempts succeeded, their retention
\* has nothing left to do, and both directories are on disk
C13_Witness ==
  /\ MAX_DAILY_BACKUPS = -1
  /\ attempts = <<>>
  /\ cleanups = <<>>
  /\ Cardinality({r \in Rows : /\ r.type = "daily"
                               /\ r.status = "success"
                               /\ [type |-> "daily", name |-> r.folder_name] \in dirs}) = 2

\* C14, as claimed: a process whose environment sets MAX_DAILY_BACKUPS to 0 or
\* to a negative number other than -1 never schedules a cron job, never sets
\* the timer of the missing-backup check and never starts an attempt.
C14_InvalidCountIsFatal ==
  (\E n \in processEnv.MAX_DAILY_BACKUPS : n = 0 \/ n < -1) =>
    /\ cronJobs = {}
    /\ missingCheck = NoCheck
    /\ started = 0

\* C15, as claimed: the process is alive after every step in which an insert
\* of an attempt is rejected.
C15_InsertFailureSurvives ==
  [][\A i \in 1..Len(attempts) : InsertRejected(i) => proc' = "running"]_vars

\* C16, as claimed: when one removal fails in the callback of a cleanup query,
\* the process stays alive and of the directories selected at most the one
\* whose removal failed is left.
C16_DeletionFailureIsSkipped ==
  [][\A k \in 1..Len(cleanups) :
       CleanupCallback(k, FALSE, TRUE) =>
         /\ proc' = "running"
         /\ \E rows \in ToDelete(cleanups[k]) :
              Cardinality(PathsOf(cleanups[k], rows) \cap dirs') <= 1]_vars

\* C17: the steps of an attempt that fails (mongodump ends with an error, an
\* insert is rejected, the failure row is inserted) issue no cleanup query and
\* remove no directory.
C17_FailedAttemptKeepsArtifacts ==
  [][\A i \in 1..Len(attempts) :
       (\/ DumpExit(i, [ok |-> FALSE])
        \/ InsertRejected(i)
        \/ attempts[i].pc = "saveFailed" /\ InsertResolved(i)) =>
         /\ cleanups' = cleanups
         /\ dirs \subseteq dirs']_vars

\* An attempt failed and left its failure row; no cleanup query was issued and
\* the three directories of the earlier run are on disk
C17_Witness ==
  /\ attempts = <<>>
  /\ cleanups = <<>>
  /\ Len(backups) = 4
  /\ backups[4].status = "failed"
  /\ \A i \in 1..3 : [type |-> backups[i].type, name |-> backups[i].folder_name] \in dirs

\* C18, as claimed: when a successful attempt releases the lock no cleanup
\* query is outstanding, and a cleanup callback that removes a directory runs
\* with the lock held.
C18_RetentionBeforeRelease ==
  [][/\ \A i \in 1..Len(attempts) : InsertResolved(i) => cleanups' = <<>>
     /\ (/\ \E k \in 1..Len(cleanups) : \E err, fault \in BOOLEAN :
              CleanupCallback(k, err, fault)
         /\ dirs' # dirs) => isBackupRunning]_vars

\* C19, as claimed: cron jobs are scheduled only once the missing-backup check
\* has run (it is past its timer).
C19_CheckBeforeTimers ==
  cronJobs # {} => missingCheck.pc \notin {"unset", "timer"}

\* C20, as claimed: the failure row prepared for an attempt names the folder
\* computed at the start of the attempt.
C20_FailureNamesItsFolder ==
  \A i \in 1..Len(attempts) :
    attempts[i].pc = "saveFailed" =>
      \A m \in attempts[i].metadata : m.folder_name = attempts[i].backupFolderName

\* The maximum age the environment sets for a type, as a set (see undefined)
EnvMaxAge(type) ==
  CASE type = "weekly" -> processEnv.MAX_AGE_OF_WEEKLY_BACKUPS
    [] type = "monthly" -> processEnv.MAX_AGE_OF_MONTHLY_BACKUPS
    [] type = "yearly" -> processEnv.MAX_AGE_OF_YEARLY_BACKUPS

\* C21, as claimed: no step removes a directory of a type whose maximum age is
\* set to 0 or to a negative number.
C21_NonPositiveAgeDisables ==
  [][\A type \in {"weekly", "monthly", "yearly"} :
       (\E n \in EnvMaxAge(type) : n <= 0) =>
         \A d \in dirs : d.type = type => d \in dirs']_vars

\* C22, as claimed: when the callback of the weekly job has run, the job is
\* due at exactly NUMBER_OF_WEEKLY_BACKUPS instants of the week of that
\* instant (counted over its whole hours, the only instants the expression of
\* the job can match), and each is followed by the next after
\* round(24 / (NUMBER_OF_WEEKLY_BACKUPS / 7)) hours.
C22_WeeklySlots ==
  "weekly" \in fired =>
    LET week == StartOf(now + SystemUtcOffset, "week") - SystemUtcOffset
        due == {h \in 0..167 : CronDue("weekly", week + 3600 * h)}
        every == HoursPerBackup(NUMBER_OF_WEEKLY_BACKUPS)
    IN /\ Cardinality(due) = NUMBER_OF_WEEKLY_BACKUPS
       /\ \A h \in due : ((h + every) % 168) \in due

\* C23, as claimed: when the callback of the daily job has run, the job is due
\* next exactly DAILY_BACKUP_INTERVAL_MINUTES minutes later.
C23_FixedInterval ==
  "daily" \in fired =>
    /\ CronDue("daily", now + 60 * DAILY_BACKUP_INTERVAL_MINUTES)
    /\ \A k \in 1..(DAILY_BACKUP_INTERVAL_MINUTES - 1) : ~CronDue("daily", now + 60 * k)

\* C24: every row of the table has status success or failed, and a message
\* exactly when it is failed, whatever attempts ran and also when the process
\* was ended with an attempt in flight.
C24_RowsAreSettled ==
  \A r \in Rows :
    /\ r.status \in {"success", "failed"}
    /\ r.error_message # NULL <=> r.status = "failed"

\* The process was ended during the dump of an attempt, after an attempt that
\* failed: the table holds successful rows and a failed one, none for the
\* attempt in flight
C24_Witness ==
  /\ proc = "exited"
  /\ Len(attempts) = 1
  /\ attempts[1].pc = "dump"
  /\ \E r \in Rows : r.status = "failed"
  /\ \E r \in Rows : r.status = "success"
  /\ \A r \in Rows : r.timestamp # attempts[1].timestamp

\* C25, as claimed: the daily count query returns exactly the successful daily
\* rows whose timestamp, read in the configured zone, falls on the day the
\* query was issued for (today in that zone).
C25_SameZoneDay ==
  [][\A k \in 1..Len(cleanups) :
       (cleanups[k].kind = "count" /\ CleanupCallback(k, FALSE, FALSE)) =>
         Selected(cleanups[k]) =
           {r \in Rows : /\ r.type = "daily"
                         /\ r.status = "success"
                         /\ DayNumber(r.timestamp.local) = cleanups[k].arg}]_vars

\* C26, as claimed: the rows a cleanup query returns to its callback are all
\* successful.
C26_OnlySuccessfulRows ==
  [][\A k \in 1..Len(cleanups) :
       CleanupCallback(k, FALSE, FALSE) =>
         \A r \in Selected(cleanups[k]) : r.status = "success"]_vars

\* C27: no step changes or removes a row of the table: the table only grows at
\* its end, with ids in strictly increasing order.
C27_AppendOnly ==
  [][/\ Len(backups') >= Len(backups)
     /\ SubSeq(backups', 1, Len(backups)) = backups
     /\ \A i \in 1..(Len(backups') - 1) : backups'[i].id < backups'[i + 1].id]_vars

\* Retention removed the directory of a successful row after a new row was
\* appended; the row is still in the table
C27_Witness ==
  /\ Len(backups) = Len(PriorDaily) + 1
  /\ cleanups = <<>>
  /\ \E r \in Rows : /\ r.status = "success"
                     /\ [type |-> r.type, name |-> r.folder_name] \notin dirs

\* C28: at every turn of the event loop isBackupRunning is true exactly when
\* currentBackupInfo is set, and then one attempt is in flight and the info
\* carries its type, its folder name and its start time.
C28_RunStateConsistent ==
  /\ isBackupRunning <=> currentBackupInfo # null
  /\ currentBackupInfo # null =>
       /\ Len(attempts) = 1
       /\ currentBackupInfo = {[type |-> attempts[1].type,
                                folderName |-> attempts[1].backupFolderName,
                                startTime |-> attempts[1].timestamp]}

\* An attempt of the missing-backup check has its dump behind it and waits for
\* its insert, RunState telling of it
C28_Witness ==
  /\ isBackupRunning
  /\ Len(attempts) = 1
  /\ attempts[1].caller = "backfill"
  /\ attempts[1].pc = "saveSuccess"
  /\ \E info \in currentBackupInfo : info.type = attempts[1].type

====
